---------------------------- MODULE Spec2Model ----------------------------
(***************************************************************************)
(* The inference server of server/main.py: the process-wide model cache    *)
(* (_models, get_model), the four request handlers (/generate,             *)
(* /generate/stream, /tokenize, /config) run by a pool of worker threads,  *)
(* and the streaming pipeline of generate_stream.event_stream (a           *)
(* background generation thread feeding a TextIteratorStreamer queue that  *)
(* the response generator drains).                                         *)
(*                                                                         *)
(* The tokenizer and the model are external (transformers); they are       *)
(* modelled by a small deterministic test double: a vocabulary of seven    *)
(* tokens and scripted continuations.  Text is a sequence of characters.   *)
(* Temperatures are in tenths, top_p in hundredths, penalties in tenths.   *)
(***************************************************************************)
EXTENDS Integers, Sequences, FiniteSets, TLC

VARIABLES
  models,      \* _models: model_id -> (tok, model), None when absent
  loadCount,   \* per model_id, the number of from_pretrained loads begun
  failedLoads, \* the loads <<model_id, n>> that raised
  returnedOK,  \* the model_ids some get_model call has returned a handle for
  ncalls,      \* requests accepted so far
  pc,          \* per worker thread, its position in the handler
  req,         \* per worker thread, the request it serves
  loc,         \* per worker thread, get_model's locals tok and model
  handle,      \* per worker thread, what get_model returned
  engineArgs,  \* per worker thread, the kwargs model.generate was given
  exc,         \* per worker thread, the exception raised inside the handler
  resp,        \* per worker thread, the response the handler returned
  streams      \* the streaming pipelines, one per started event_stream

vars == <<models, loadCount, failedLoads, returnedOK, ncalls, pc, req, loc,
          handle, engineArgs, exc, resp, streams>>

-----------------------------------------------------------------------------
(* Bounds *)

NumCallers == 2
MaxCalls == 3
MaxNewTokens == 2

Callers == 1..NumCallers

-----------------------------------------------------------------------------
(* Python values *)

None == <<>>

Some(v) == <<v>>

ModelIds == {"gpt2", "toy"}

\* the four routes that resolve a model; "resolve" is a direct get_model call
Ops == {"generate", "stream", "tokenize", "config"}

DefaultTopP == 95

DefaultRepetitionPenalty == 10

Temperatures == {-5, 0, 7}

Prompts == { <<>>, <<"a">>, <<"a", " ", "a">>, <<"E", "\n">> }

GenerateRequest(id, prompt, n, t) ==
  [model_id |-> id, prompt |-> prompt, max_new_tokens |-> n,
   temperature |-> t, top_p |-> DefaultTopP,
   repetition_penalty |-> DefaultRepetitionPenalty]

ConfigRequest(id) == [model_id |-> id]

-----------------------------------------------------------------------------
(* The tokenizer double.  Token 0 is the special end-of-text token; tokens *)
(* 4 and 5 are the two bytes of the character "E", so that decoding either *)
(* alone gives the replacement character "?".                              *)

EosToken == 0

TokA == 1

TokSpaceA == 2

TokNewline == 3

TokByte1 == 4

TokByte2 == 5

TokSpace == 6

Vocabulary == 0..6

RECURSIVE Encode(_)
Encode(text) ==
  IF text = <<>> THEN <<>>
  ELSE IF Len(text) >= 2 /\ text[1] = " " /\ text[2] = "a"
    THEN <<TokSpaceA>> \o Encode(SubSeq(text, 3, Len(text)))
  ELSE LET rest == Tail(text) IN
    CASE text[1] = "a" -> <<TokA>> \o Encode(rest)
      [] text[1] = " " -> <<TokSpace>> \o Encode(rest)
      [] text[1] = "\n" -> <<TokNewline>> \o Encode(rest)
      [] OTHER -> <<TokByte1, TokByte2>> \o Encode(rest)

RECURSIVE Decode(_, _)
Decode(ids, skip_special_tokens) ==
  IF ids = <<>> THEN <<>>
  ELSE IF Len(ids) >= 2 /\ ids[1] = TokByte1 /\ ids[2] = TokByte2
    THEN <<"E">> \o Decode(SubSeq(ids, 3, Len(ids)), skip_special_tokens)
  ELSE LET rest == Decode(Tail(ids), skip_special_tokens) IN
    CASE ids[1] = EosToken ->
           IF skip_special_tokens THEN rest ELSE <<"<eos>">> \o rest
      [] ids[1] = TokA -> <<"a">> \o rest
      [] ids[1] = TokSpaceA -> <<" ", "a">> \o rest
      [] ids[1] = TokNewline -> <<"\n">> \o rest
      [] ids[1] = TokSpace -> <<" ">> \o rest
      [] OTHER -> <<"?">> \o rest

(* The model double: model.generate continues the prompt with a scripted   *)
(* sequence, cut at max_new_tokens and after the end-of-text token.        *)
(* Without sampling the script is fixed by the prompt; with sampling the   *)
(* seed picks it.                                                          *)

Scripts == << <<TokSpaceA, TokA, EosToken>>,
              <<TokByte1, TokByte2, TokNewline>>,
              <<EosToken>>,
              <<TokSpace, TokNewline, TokSpaceA>> >>

Seeds == 1..Len(Scripts)

GreedySeed(ids) == (Len(ids) % Len(Scripts)) + 1

RECURSIVE CutAtEos(_)
CutAtEos(ids) ==
  IF ids = <<>> THEN <<>>
  ELSE IF ids[1] = EosToken THEN <<EosToken>>
  ELSE <<ids[1]>> \o CutAtEos(Tail(ids))

Continuation(ids, kwargs, seed) ==
  LET script == Scripts[IF kwargs.do_sample THEN seed ELSE GreedySeed(ids)]
      n == IF kwargs.max_new_tokens < Len(script)
           THEN kwargs.max_new_tokens ELSE Len(script)
  IN CutAtEos(SubSeq(script, 1, n))

ModelGenerate(ids, kwargs, seed) == ids \o Continuation(ids, kwargs, seed)

(* model.config: the attributes hasattr finds (with their values, None     *)
(* included), whether it has to_dict, and what to_dict() dumps.  The       *)
(* doubles vary two of the recognized attributes, each absent, None or set *)
(* as an attribute and in the dump; the dump always has a key of its own.  *)

ConfigAttrs == <<"n_embd", "hidden_size", "n_head", "num_attention_heads",
                 "n_layer", "num_hidden_layers", "vocab_size",
                 "block_size", "max_position_embeddings">>

VariedAttrs == {"n_embd", "max_position_embeddings"}

\* the functions from a subset of keys to values
PartialFunctions(keys, values) == UNION {[d -> values] : d \in SUBSET keys}

ModelConfigs ==
  {[has_to_dict |-> h, attrs |-> f,
    raw |-> [k \in DOMAIN g \cup {"architectures"} |->
               IF k \in DOMAIN g THEN g[k] ELSE Some("GPT2LMHeadModel")]] :
     h \in BOOLEAN,
     f \in PartialFunctions(VariedAttrs, {None, Some(768)}),
     g \in PartialFunctions(VariedAttrs, {None, Some(1024)})}

-----------------------------------------------------------------------------
(* get_model, one step per statement that reads or writes _models or calls *)
(* a loader.  A request's model_id and operation are fixed when it is      *)
(* accepted; its other fields are drawn when the handler body first reads  *)
(* them, after get_model has returned.                                     *)

NoLocals == [tok |-> None, model |-> None]

Tokenizer(id, n) == [obj |-> "tokenizer", model_id |-> id, load |-> n]

Model(id, n) == [obj |-> "model", model_id |-> id, load |-> n]

\* a lookup that never finds the entry
CachedNever(id) == FALSE

\* model_id in _models
Cached(id) == models[id] # None

\* an error answer that hides the exception's message
ErrorResponseGeneric(e) == [status |-> 500, body |-> [error |-> "Internal Server Error"]]

\* JSONResponse(status_code=500, content={'error': str(e)})
ErrorResponse(e) == [status |-> 500, body |-> [error |-> e[1]]]

OkResponse(body) == [status |-> 200, body |-> body]

\* get_model's except clause: log, then re-raise the loader's exception
GetModelExcept(e) == e

\* the entry _models[model_id] = (tok, model)
CacheEntry(tok, model) == <<tok, model>>

\* a handler is entered and calls get_model: the lookup of line 35
Request(c, op, id) ==
  /\ pc[c] = "idle"
  /\ ncalls < MaxCalls
  /\ ncalls' = ncalls + 1
  /\ req' = [req EXCEPT ![c] = [op |-> op, model_id |-> id, miss |-> ~Cached(id),
                               fields |-> None]]
  /\ IF Cached(id)
     THEN /\ pc' = [pc EXCEPT ![c] = "body"]
          /\ handle' = [handle EXCEPT ![c] = models[id]]
          /\ returnedOK' = returnedOK \cup {id}
     ELSE /\ pc' = [pc EXCEPT ![c] = "load_tokenizer"]
          /\ UNCHANGED <<handle, returnedOK>>
  /\ UNCHANGED <<models, loadCount, failedLoads, loc, engineArgs, exc, resp,
                 streams>>

\* the exception leaves get_model
RaiseFromGetModel(c, e) ==
  /\ exc' = [exc EXCEPT ![c] = GetModelExcept(e)]
  /\ pc' = [pc EXCEPT ![c] = "raised"]
  /\ loc' = [loc EXCEPT ![c] = NoLocals]
  /\ UNCHANGED resp

\* tok = AutoTokenizer.from_pretrained(model_id)
LoadTokenizer(c) ==
  /\ pc[c] = "load_tokenizer"
  /\ LET id == req[c].model_id
         n == loadCount[id] + 1
     IN /\ loadCount' = [loadCount EXCEPT ![id] = n]
        /\ \/ /\ loc' = [loc EXCEPT ![c].tok = Tokenizer(id, n)]
              /\ pc' = [pc EXCEPT ![c] = "load_model"]
              /\ UNCHANGED <<failedLoads, exc, resp>>
           \/ /\ RaiseFromGetModel(c, Some("tokenizer load failed"))
              /\ failedLoads' = failedLoads \cup {<<id, n>>}
  /\ UNCHANGED <<models, returnedOK, ncalls, req, handle, engineArgs, streams>>

\* a get_model that caches the tokenizer before the model is loaded
LoadModelCachingTokenizer(c) ==
  /\ pc[c] = "load_model"
  /\ LET id == req[c].model_id
         n == loc[c].tok.load
     IN \/ /\ loc' = [loc EXCEPT ![c].model = Model(id, n)]
           /\ pc' = [pc EXCEPT ![c] = "store"]
           /\ UNCHANGED <<models, failedLoads, exc, resp>>
        \/ /\ RaiseFromGetModel(c, Some("model load failed"))
           /\ models' = [models EXCEPT ![id] = CacheEntry(loc[c].tok, None)]
           /\ failedLoads' = failedLoads \cup {<<id, n>>}
  /\ UNCHANGED <<loadCount, returnedOK, ncalls, req, handle, engineArgs,
                 streams>>

\* model = AutoModelForCausalLM.from_pretrained(model_id, ...)
LoadModel(c) ==
  /\ pc[c] = "load_model"
  /\ LET id == req[c].model_id
         n == loc[c].tok.load
     IN \/ /\ loc' = [loc EXCEPT ![c].model = Model(id, n)]
           /\ pc' = [pc EXCEPT ![c] = "store"]
           /\ UNCHANGED <<failedLoads, exc, resp>>
        \/ /\ RaiseFromGetModel(c, Some("model load failed"))
           /\ failedLoads' = failedLoads \cup {<<id, n>>}
  /\ UNCHANGED <<models, loadCount, returnedOK, ncalls, req, handle,
                 engineArgs, streams>>

\* _models[model_id] = (tok, model)
Store(c) ==
  /\ pc[c] = "store"
  /\ models' = [models EXCEPT
                  ![req[c].model_id] = CacheEntry(loc[c].tok, loc[c].model)]
  /\ pc' = [pc EXCEPT ![c] = "return"]
  /\ UNCHANGED <<loadCount, failedLoads, returnedOK, ncalls, req, loc, handle,
                 engineArgs, exc, resp, streams>>

\* return _models[model_id]
Return(c) ==
  /\ pc[c] = "return"
  /\ handle' = [handle EXCEPT ![c] = models[req[c].model_id]]
  /\ returnedOK' = returnedOK \cup {req[c].model_id}
  /\ loc' = [loc EXCEPT ![c] = NoLocals]
  /\ pc' = [pc EXCEPT ![c] = "body"]
  /\ UNCHANGED <<models, loadCount, failedLoads, ncalls, req, engineArgs, exc,
                 resp, streams>>

-----------------------------------------------------------------------------
(* The handler bodies.  Everything after get_model is local to the worker  *)
(* thread, so each body is one step; `fail` is the call that raises.       *)

\* keyword arguments that pass the temperature whatever it is
GenerateArgsAlwaysTemperature(r) ==
  [max_new_tokens |-> r.max_new_tokens,
   do_sample |-> r.temperature > 0,
   temperature |-> Some(r.temperature),
   top_p |-> r.top_p,
   repetition_penalty |-> r.repetition_penalty]

\* keyword arguments that ask for sampling at temperature 0 as well
GenerateArgsSamplingAtZero(r) ==
  [max_new_tokens |-> r.max_new_tokens,
   do_sample |-> r.temperature >= 0,
   temperature |-> Some(r.temperature),
   top_p |-> r.top_p,
   repetition_penalty |-> r.repetition_penalty]

\* the keyword arguments of model.generate in generate()
GenerateArgs(r) ==
  [max_new_tokens |-> r.max_new_tokens,
   do_sample |-> r.temperature > 0,
   temperature |-> IF r.temperature > 0 THEN Some(r.temperature) ELSE None,
   top_p |-> r.top_p,
   repetition_penalty |-> r.repetition_penalty]

\* gen_kwargs of generate_stream(), the streamer aside
StreamGenKwargs(r) ==
  [max_new_tokens |-> r.max_new_tokens,
   do_sample |-> r.temperature > 0,
   temperature |-> IF r.temperature > 0 THEN Some(r.temperature) ELSE None,
   top_p |-> r.top_p,
   repetition_penalty |-> r.repetition_penalty]

\* tokens cut out of the joint decoding, one per character
TokenizeResultByCharacter(prompt) ==
  LET token_ids == Encode(prompt)
      text == Decode(token_ids, FALSE)
  IN [token_ids |-> token_ids,
      tokens |-> [i \in 1..Len(text) |-> <<text[i]>>],
      count |-> Len(token_ids)]

\* the body of the /tokenize answer
TokenizeResult(prompt) ==
  LET token_ids == Encode(prompt)
      tokens == [i \in 1..Len(token_ids) |-> Decode(<<token_ids[i]>>, FALSE)]
  IN [token_ids |-> token_ids, tokens |-> tokens, count |-> Len(token_ids)]

RECURSIVE ProbeAttrs(_, _, _)
\* the first loop of get_model_config over attrs[i..]
ProbeAttrs(config, i, dict) ==
  IF i > Len(ConfigAttrs) THEN dict
  ELSE LET attr == ConfigAttrs[i] IN
    IF attr \in DOMAIN config.attrs /\ config.attrs[attr] # None
    THEN ProbeAttrs(config, i + 1,
           [k \in DOMAIN dict \cup {attr} |->
              IF k = attr THEN config.attrs[attr] ELSE dict[k]])
    ELSE ProbeAttrs(config, i + 1, dict)

RECURSIVE MergeRaw(_, _, _)
\* the second loop of get_model_config over attrs[i..]
MergeRaw(raw_config, i, dict) ==
  IF i > Len(ConfigAttrs) THEN dict
  ELSE LET key == ConfigAttrs[i] IN
    IF key \notin DOMAIN dict /\ key \in DOMAIN raw_config
    THEN MergeRaw(raw_config, i + 1,
           [k \in DOMAIN dict \cup {key} |->
              IF k = key THEN raw_config[key] ELSE dict[k]])
    ELSE MergeRaw(raw_config, i + 1, dict)

EmptyDict == [k \in {} |-> None]

\* config_dict of get_model_config
ConfigDict(config) ==
  LET probed == ProbeAttrs(config, 1, EmptyDict)
  IN IF config.has_to_dict THEN MergeRaw(config.raw, 1, probed) ELSE probed

Responded(c, r, e, response) ==
  /\ req' = [req EXCEPT ![c].fields = r]
  /\ exc' = [exc EXCEPT ![c] = e]
  /\ resp' = [resp EXCEPT ![c] = response]
  /\ pc' = [pc EXCEPT ![c] = "responded"]
  /\ UNCHANGED <<models, loadCount, failedLoads, returnedOK, ncalls, loc,
                 handle, streams>>

\* POST /generate, after get_model
Generate(c) ==
  /\ pc[c] = "body" /\ req[c].op = "generate"
  /\ \E prompt \in Prompts, n \in 1..MaxNewTokens, t \in Temperatures,
        seed \in Seeds,
        fail \in {"none", "tokenize failed", "generate failed", "decode failed"} :
       LET r == GenerateRequest(req[c].model_id, prompt, n, t)
           inputs == Encode(prompt)
           kwargs == GenerateArgs(r)
           out == ModelGenerate(inputs, kwargs, seed)
           text == Decode(out, TRUE)
       IN /\ engineArgs' = [engineArgs EXCEPT
                              ![c] = IF fail = "tokenize failed" THEN None
                                     ELSE Some(kwargs)]
          /\ IF fail = "none"
             THEN Responded(c, r, None, OkResponse([text |-> text]))
             ELSE Responded(c, r, Some(fail), ErrorResponse(Some(fail)))

\* POST /generate/stream, after get_model and up to the StreamingResponse
GenerateStream(c) ==
  /\ pc[c] = "body" /\ req[c].op = "stream"
  /\ \E prompt \in Prompts, n \in 1..MaxNewTokens, t \in Temperatures,
        fail \in {"none", "tokenize failed"} :
       LET r == GenerateRequest(req[c].model_id, prompt, n, t)
           inputs == Encode(prompt)
           gen_kwargs == StreamGenKwargs(r)
       IN IF fail = "none"
          THEN Responded(c, r, None,
                 OkResponse([media_type |-> "text/event-stream",
                             input_ids |-> inputs,
                             gen_kwargs |-> gen_kwargs]))
          ELSE Responded(c, r, Some(fail), ErrorResponse(Some(fail)))
  /\ UNCHANGED engineArgs

\* POST /tokenize, after get_model
TokenizeText(c) ==
  /\ pc[c] = "body" /\ req[c].op = "tokenize"
  /\ \E prompt \in Prompts, fail \in {"none", "tokenize failed", "decode failed"} :
       LET r == [prompt |-> prompt]
       IN IF fail = "none"
          THEN Responded(c, r, None, OkResponse(TokenizeResult(prompt)))
          ELSE Responded(c, r, Some(fail), ErrorResponse(Some(fail)))
  /\ UNCHANGED engineArgs

\* POST /config, after get_model; the model's config is recorded with the
\* request
GetModelConfig(c) ==
  /\ pc[c] = "body" /\ req[c].op = "config"
  /\ \E config \in ModelConfigs, fail \in {"none", "config failed"} :
       LET r == [request |-> ConfigRequest(req[c].model_id),
                 config |-> config]
       IN IF fail = "none"
          THEN Responded(c, r, None, OkResponse(ConfigDict(config)))
          ELSE Responded(c, r, Some(fail), ErrorResponse(Some(fail)))
  /\ UNCHANGED engineArgs

\* the except clause of a handler whose get_model call raised
CatchLoadError(c) ==
  /\ pc[c] = "raised" /\ req[c].op \in Ops
  /\ resp' = [resp EXCEPT ![c] = ErrorResponse(exc[c])]
  /\ pc' = [pc EXCEPT ![c] = "responded"]
  /\ UNCHANGED <<models, loadCount, failedLoads, returnedOK, ncalls, req, loc,
                 handle, engineArgs, exc, streams>>

\* a direct caller of get_model has its handle or its exception
Resolved(c) ==
  /\ pc[c] \in {"body", "raised"} /\ req[c].op = "resolve"
  /\ pc' = [pc EXCEPT ![c] = "idle"]
  /\ req' = [req EXCEPT ![c] = None]
  /\ handle' = [handle EXCEPT ![c] = None]
  /\ exc' = [exc EXCEPT ![c] = None]
  /\ UNCHANGED <<models, loadCount, failedLoads, returnedOK, ncalls, loc,
                 engineArgs, resp, streams>>

\* the response is sent and the worker thread takes the next request
Finish(c) ==
  /\ pc[c] = "responded"
  /\ pc' = [pc EXCEPT ![c] = "idle"]
  /\ req' = [req EXCEPT ![c] = None]
  /\ handle' = [handle EXCEPT ![c] = None]
  /\ engineArgs' = [engineArgs EXCEPT ![c] = None]
  /\ exc' = [exc EXCEPT ![c] = None]
  /\ resp' = [resp EXCEPT ![c] = None]
  /\ UNCHANGED <<models, loadCount, failedLoads, returnedOK, ncalls, loc,
                 streams>>

Init ==
  /\ models = [id \in ModelIds |-> None]
  /\ loadCount = [id \in ModelIds |-> 0]
  /\ failedLoads = {}
  /\ returnedOK = {}
  /\ ncalls = 0
  /\ pc = [c \in Callers |-> "idle"]
  /\ req = [c \in Callers |-> None]
  /\ loc = [c \in Callers |-> NoLocals]
  /\ handle = [c \in Callers |-> None]
  /\ engineArgs = [c \in Callers |-> None]
  /\ exc = [c \in Callers |-> None]
  /\ resp = [c \in Callers |-> None]
  /\ streams = <<>>

\* the worker threads of the handler specification: requests one at a time
Workers == {1}

GetModelStep(c) ==
  \/ LoadTokenizer(c)
  \/ LoadModel(c)
  \/ Store(c)
  \/ Return(c)

\* the request handlers, each from its get_model call to its response
Next ==
  \E c \in Workers :
    \/ \E op \in Ops, id \in ModelIds : Request(c, op, id)
    \/ GetModelStep(c)
    \/ CatchLoadError(c)
    \/ Generate(c)
    \/ GenerateStream(c)
    \/ TokenizeText(c)
    \/ GetModelConfig(c)
    \/ Finish(c)

Spec == Init /\ [][Next]_vars

\* get_model called concurrently by the threads of Callers
NextCache ==
  \E c \in Callers :
    \/ \E id \in ModelIds : Request(c, "resolve", id)
    \/ GetModelStep(c)
    \/ Resolved(c)

SpecCache == Init /\ [][NextCache]_vars

\* the requests of the callers so far are one and the same request
SameRequest ==
  \A c, d \in Callers :
    (req[c] # None /\ req[d] # None)
      => /\ req[c].op = req[d].op
         /\ req[c].model_id = req[d].model_id
         /\ (req[c].fields # None /\ req[d].fields # None)
              => req[c].fields = req[d].fields

\* caller c makes the request the others made, once the caller before it
\* has its answer
RepeatRequest(c, op, id) ==
  /\ IF c = 1 THEN TRUE ELSE pc[c - 1] = "responded"
  /\ Request(c, op, id)
  /\ SameRequest'

RepeatGenerate(c) == Generate(c) /\ SameRequest'

RepeatTokenize(c) == TokenizeText(c) /\ SameRequest'

\* one /generate or /tokenize request made by every caller in turn, on a
\* cache that starts empty; the answers stay for comparison
NextRepeat ==
  \E c \in Callers :
    \/ \E op \in {"generate", "tokenize"}, id \in ModelIds :
         RepeatRequest(c, op, id)
    \/ GetModelStep(c)
    \/ CatchLoadError(c)
    \/ RepeatGenerate(c)
    \/ RepeatTokenize(c)

SpecRepeat == Init /\ [][NextRepeat]_vars

-----------------------------------------------------------------------------
(* generate_stream.event_stream: the response generator (foreground), the  *)
(* thread running model.generate (background) and the TextIteratorStreamer *)
(* between them.  The streamer decodes the generated tokens so far         *)
(* (skipping the prompt and special tokens), puts the text up to the last  *)
(* space (or up to a newline) on an unbounded queue after every token, and *)
(* at the end of the generation puts the rest and then the stop signal.    *)
(* The transport pulls a frame, sends it, and pulls the next; a client     *)
(* that disconnects closes the generator where it is suspended.            *)

\* the position of the last space of text, 0 when there is none
LastSpace(text) ==
  LET at == {i \in 1..Len(text) : text[i] = " "}
  IN IF at = {} THEN 0 ELSE CHOOSE i \in at : \A j \in at : j <= i

\* a queue that hands out the newest item first
QueuePutFront(queue, item) == <<item>> \o queue

\* text_queue.put(item)
QueuePut(queue, item) == Append(queue, item)

\* a queue with room for one item only
QueueFullAtOne(queue) == Len(queue) >= 1

\* text_queue = Queue(): no maximum size, so put never waits
QueueFull(queue) == FALSE

\* the stop signal of TextIteratorStreamer
StopSignal == None

\* f"data: {piece}\n\n"
Frame(piece) == <<"d", "a", "t", "a", ":", " ">> \o piece \o <<"\n", "\n">>

\* on_finalized_text(text): the text goes on the queue
Emit(st, text) ==
  [st EXCEPT !.queue = QueuePut(@, Some(text)),
             !.produced = Append(@, text)]

\* streamer.put(token) for a generated token
StreamerPut(st, token) ==
  LET cache == Append(st.token_cache, token)
      text == Decode(cache, TRUE)
  IN IF text # <<>> /\ text[Len(text)] = "\n"
     THEN Emit([st EXCEPT !.token_cache = <<>>, !.print_len = 0],
               SubSeq(text, st.print_len + 1, Len(text)))
     ELSE LET printable == SubSeq(text, st.print_len + 1, LastSpace(text))
          IN Emit([st EXCEPT !.token_cache = cache,
                             !.print_len = @ + Len(printable)],
                  printable)

\* a streamer.end() that forgets the stop signal
StreamerEndNoStop(st) ==
  Emit([st EXCEPT !.token_cache = <<>>, !.print_len = 0,
                  !.next_tokens_are_prompt = TRUE],
       IF st.token_cache # <<>>
       THEN LET text == Decode(st.token_cache, TRUE)
            IN SubSeq(text, st.print_len + 1, Len(text))
       ELSE <<>>)

\* streamer.end(): the rest of the text, then the stop signal
StreamerEnd(st) ==
  LET flushed ==
        Emit([st EXCEPT !.token_cache = <<>>, !.print_len = 0,
                        !.next_tokens_are_prompt = TRUE],
             IF st.token_cache # <<>>
             THEN LET text == Decode(st.token_cache, TRUE)
                  IN SubSeq(text, st.print_len + 1, Len(text))
             ELSE <<>>)
  IN [flushed EXCEPT !.queue = QueuePut(@, StopSignal)]

\* a join that does not wait for the thread
ThreadJoinedNoWait(st) == TRUE

\* thread.join() returns once the thread has terminated
ThreadJoined(st) == st.bg \in {"finished", "raised"}

\* StreamingResponse(event_stream(), ...) for request r: nothing runs yet
NewStream(r, seed) ==
  [model_id |-> r.model_id,
   input_ids |-> Encode(r.prompt),
   gen_kwargs |-> StreamGenKwargs(r),
   seed |-> seed,
   engine_args |-> None,
   nthreads |-> 0,
   bg |-> "unstarted",
   ngen |-> 0,
   next_tokens_are_prompt |-> TRUE,
   token_cache |-> <<>>,
   print_len |-> 0,
   queue |-> <<>>,
   produced |-> <<>>,
   fg |-> "created",
   held |-> None,
   delivered |-> <<>>,
   client |-> "connected"]

\* what the streaming pipeline leaves alone
ServerVars == <<models, loadCount, failedLoads, returnedOK, ncalls, pc, req,
                loc, handle, engineArgs, exc, resp>>

\* the streams of the streaming specification
StreamIds == {1}

\* the first next(): thread.start(), then the generator waits on the queue
FgStart(s) ==
  /\ streams[s].fg = "created" /\ streams[s].client = "connected"
  /\ streams' = [streams EXCEPT ![s].fg = "waiting",
                                ![s].bg = "running",
                                ![s].nthreads = @ + 1,
                                ![s].engine_args = Some(streams[s].gen_kwargs)]
  /\ UNCHANGED ServerVars

\* model.generate hands the prompt to the streamer, which skips it
BgPutPrompt(s) ==
  /\ streams[s].bg = "running" /\ streams[s].next_tokens_are_prompt
  /\ streams' = [streams EXCEPT ![s].next_tokens_are_prompt = FALSE]
  /\ UNCHANGED ServerVars

\* a generation that hands its tokens to one streamer shared by all requests
BgTokenSharedStreamer(s) ==
  LET st == streams[s]
      tokens == Continuation(st.input_ids, st.gen_kwargs, st.seed)
      shared == CHOOSE t \in DOMAIN streams : \A u \in DOMAIN streams : t <= u
  IN /\ st.bg = "running" /\ ~st.next_tokens_are_prompt
     /\ st.ngen < Len(tokens)
     /\ streams' = [t \in DOMAIN streams |->
                      LET counted == IF t = s THEN [streams[t] EXCEPT !.ngen = @ + 1]
                                     ELSE streams[t]
                      IN IF t = shared
                         THEN StreamerPut(counted, tokens[st.ngen + 1])
                         ELSE counted]
     /\ UNCHANGED ServerVars

\* model.generate produces the next token and hands it to the streamer
BgToken(s) ==
  LET st == streams[s]
      tokens == Continuation(st.input_ids, st.gen_kwargs, st.seed)
  IN /\ st.bg = "running" /\ ~st.next_tokens_are_prompt
     /\ st.ngen < Len(tokens)
     /\ ~QueueFull(st.queue)
     /\ streams' = [streams EXCEPT
                      ![s] = StreamerPut([st EXCEPT !.ngen = @ + 1],
                                         tokens[st.ngen + 1])]
     /\ UNCHANGED ServerVars

\* model.generate is done (max_new_tokens or end of text): streamer.end()
BgEnd(s) ==
  LET st == streams[s]
      tokens == Continuation(st.input_ids, st.gen_kwargs, st.seed)
  IN /\ st.bg = "running" /\ ~st.next_tokens_are_prompt
     /\ st.ngen = Len(tokens)
     /\ ~QueueFull(st.queue)
     /\ streams' = [streams EXCEPT ![s] = StreamerEnd([st EXCEPT !.bg = "ending"])]
     /\ UNCHANGED ServerVars

\* model.generate returns and the thread terminates
BgExit(s) ==
  /\ streams[s].bg = "ending"
  /\ streams' = [streams EXCEPT ![s].bg = "finished"]
  /\ UNCHANGED ServerVars

\* model.generate raises: the thread dies without calling streamer.end()
BgRaise(s) ==
  /\ streams[s].bg = "running"
  /\ streams' = [streams EXCEPT ![s].bg = "raised"]
  /\ UNCHANGED ServerVars

\* a consumer that asks for the next piece while it still holds a frame
FgNextAhead(s) ==
  LET st == streams[s] IN
  /\ st.fg \in {"waiting", "yielded"} /\ st.queue # <<>>
  /\ streams' = [streams EXCEPT
       ![s] = IF Head(st.queue) = StopSignal
              THEN [st EXCEPT !.queue = Tail(@), !.fg = "joining"]
              ELSE [st EXCEPT !.queue = Tail(@), !.fg = "yielded",
                              !.held = Some(Frame(Head(st.queue)[1]))]]
  /\ UNCHANGED ServerVars

\* next(streamer) returns: a piece is yielded as a frame, or on the stop
\* signal the loop ends and the generator goes to its finally clause
FgNext(s) ==
  LET st == streams[s] IN
  /\ st.fg = "waiting" /\ st.queue # <<>>
  /\ streams' = [streams EXCEPT
       ![s] = IF Head(st.queue) = StopSignal
              THEN [st EXCEPT !.queue = Tail(@), !.fg = "joining"]
              ELSE [st EXCEPT !.queue = Tail(@), !.fg = "yielded",
                              !.held = Some(Frame(Head(st.queue)[1]))]]
  /\ UNCHANGED ServerVars

\* the transport sends the frame it was given
Send(s) ==
  LET st == streams[s] IN
  /\ st.fg = "yielded" /\ st.client = "connected"
  /\ streams' = [streams EXCEPT ![s].fg = "sent",
                                ![s].held = None,
                                ![s].delivered = Append(@, st.held[1])]
  /\ UNCHANGED ServerVars

\* the transport asks for the next frame
Pull(s) ==
  /\ streams[s].fg = "sent" /\ streams[s].client = "connected"
  /\ streams' = [streams EXCEPT ![s].fg = "waiting"]
  /\ UNCHANGED ServerVars

\* the client disconnects: the generator is closed where it is suspended
\* (GeneratorExit at the yield runs the finally clause; a generator that
\* never started has nothing to run)
Close(s) ==
  LET st == streams[s] IN
  /\ st.fg \in {"created", "yielded", "sent"} /\ st.client = "connected"
  /\ streams' = [streams EXCEPT
       ![s] = [st EXCEPT !.client = "gone", !.held = None,
                         !.fg = IF st.fg = "created" THEN "done" ELSE "joining"]]
  /\ UNCHANGED ServerVars

\* finally: thread.join(), after which the generator is finished
FgJoin(s) ==
  /\ streams[s].fg = "joining" /\ ThreadJoined(streams[s])
  /\ streams' = [streams EXCEPT ![s].fg = "done"]
  /\ UNCHANGED ServerVars

BgStep(s) == BgPutPrompt(s) \/ BgToken(s) \/ BgEnd(s) \/ BgExit(s)

FgStep(s) == FgStart(s) \/ FgNext(s) \/ Send(s) \/ Pull(s) \/ FgJoin(s)

StreamRequests ==
  {GenerateRequest(id, prompt, n, t) :
     id \in {"gpt2"}, prompt \in Prompts, n \in 1..MaxNewTokens,
     t \in Temperatures}

\* one stream, of any request, on a cached model
InitStream ==
  /\ models = [id \in ModelIds |-> CacheEntry(Tokenizer(id, 1), Model(id, 1))]
  /\ loadCount = [id \in ModelIds |-> 1]
  /\ failedLoads = {}
  /\ returnedOK = ModelIds
  /\ ncalls = 1
  /\ pc = [c \in Callers |-> "idle"]
  /\ req = [c \in Callers |-> None]
  /\ loc = [c \in Callers |-> NoLocals]
  /\ handle = [c \in Callers |-> None]
  /\ engineArgs = [c \in Callers |-> None]
  /\ exc = [c \in Callers |-> None]
  /\ resp = [c \in Callers |-> None]
  /\ \E r \in StreamRequests :
       \E seed \in (IF r.temperature > 0 THEN Seeds
                    ELSE {GreedySeed(Encode(r.prompt))}) :
         streams = [s \in StreamIds |-> NewStream(r, seed)]

NextStream ==
  \E s \in StreamIds :
    \/ BgStep(s)
    \/ BgRaise(s)
    \/ FgStep(s)
    \/ Close(s)

SpecStream == InitStream /\ [][NextStream]_vars

\* the streams of the specification of concurrent streams
StreamPair == {1, 2}

\* two streams at once on the same cached model: the first generates
\* without sampling from any prompt, the second samples from the prompt "a"
InitPair ==
  /\ models = [id \in ModelIds |-> CacheEntry(Tokenizer(id, 1), Model(id, 1))]
  /\ loadCount = [id \in ModelIds |-> 1]
  /\ failedLoads = {}
  /\ returnedOK = ModelIds
  /\ ncalls = Cardinality(StreamPair)
  /\ pc = [c \in Callers |-> "idle"]
  /\ req = [c \in Callers |-> None]
  /\ loc = [c \in Callers |-> NoLocals]
  /\ handle = [c \in Callers |-> None]
  /\ engineArgs = [c \in Callers |-> None]
  /\ exc = [c \in Callers |-> None]
  /\ resp = [c \in Callers |-> None]
  /\ \E prompt \in Prompts, seed \in Seeds :
       LET greedy == GenerateRequest("gpt2", prompt, MaxNewTokens, 0)
           sampled == GenerateRequest("gpt2", <<"a">>, MaxNewTokens, 7)
       IN streams = [s \in StreamPair |->
                       IF s = 1
                       THEN NewStream(greedy, GreedySeed(Encode(prompt)))
                       ELSE NewStream(sampled, seed)]

NextPair ==
  \E s \in StreamPair :
    \/ BgStep(s)
    \/ BgRaise(s)
    \/ FgStep(s)
    \/ Close(s)

SpecPair == InitPair /\ [][NextPair]_vars

\* threads that are ready run, and a connected client keeps reading
StreamFairness ==
  \A s \in StreamIds : WF_vars(BgStep(s)) /\ WF_vars(FgStep(s))

FairSpecStream == SpecStream /\ StreamFairness

-----------------------------------------------------------------------------
(* The model cache *)

\* C1: when two or more callers resolve the same identifier concurrently,
\* each finding it not yet cached, and no load fails, exactly one load of
\* the identifier is performed and all of them receive the same handle.
C1_OneLoadForConcurrentResolves ==
  \A c1, c2 \in Callers :
    ( /\ c1 # c2
      /\ pc[c1] = "body" /\ pc[c2] = "body"
      /\ req[c1].miss /\ req[c2].miss
      /\ req[c1].model_id = req[c2].model_id
      /\ \A n \in 1..MaxCalls : <<req[c1].model_id, n>> \notin failedLoads )
    => /\ loadCount[req[c1].model_id] = 1
       /\ handle[c1] = handle[c2]

\* C2: once a resolve of an identifier has returned a handle, a resolve of
\* the same identifier that begins later returns the cached handle at once:
\* it performs no load, so the load count does not increase, and the cache
\* is unchanged.
C2_LaterResolveHitsCache ==
  [][ \A c \in Callers, id \in ModelIds :
        ( /\ id \in returnedOK
          /\ pc[c] = "idle" /\ pc'[c] # "idle"
          /\ req'[c].model_id = id )
        => /\ pc'[c] = "body"
           /\ models[id] # None
           /\ handle'[c] = models[id]
           /\ loadCount' = loadCount
           /\ models' = models ]_vars

\* a resolve has hit the cache that an earlier resolve filled
C2_Witness ==
  \E c \in Callers :
    /\ pc[c] = "body" /\ ~req[c].miss
    /\ handle[c] = models[req[c].model_id]
    /\ loadCount[req[c].model_id] = 1

C3_NoTraceOfFailedLoad ==
  /\ \A id \in ModelIds :
       models[id] # None =>
         /\ models[id] = CacheEntry(Tokenizer(id, models[id][1].load),
                                    Model(id, models[id][1].load))
         /\ <<id, models[id][1].load>> \notin failedLoads
  /\ \A c \in Callers :
       pc[c] = "load_model" =>
         \/ models[req[c].model_id] = None
         \/ models[req[c].model_id][1] # loc[c].tok

C3_FailureStep ==
  \A c \in Callers :
    /\ (pc[c] = "load_tokenizer" /\ pc'[c] = "raised")
         => models' = models /\ exc'[c] = Some("tokenizer load failed")
    /\ (pc[c] = "load_model" /\ pc'[c] = "raised")
         => models' = models /\ exc'[c] = Some("model load failed")
    /\ (pc[c] = "idle" /\ pc'[c] # "idle" /\ models[req'[c].model_id] = None)
         => pc'[c] = "load_tokenizer" /\ loc'[c] = NoLocals
    /\ (pc[c] = "load_tokenizer" /\ pc'[c] # "load_tokenizer")
         => loadCount'[req[c].model_id] = loadCount[req[c].model_id] + 1

\* C3: a resolve whose tokenizer load or model load raises writes nothing to
\* the cache (the step that raises leaves it unchanged, and no entry ever
\* holds a load that failed or only the tokenizer of a load), the loader's
\* exception reaches the caller, and a resolve that then finds the
\* identifier absent loads again from the start, counting as a new load.
C3_FailedLoadLeavesCacheAndRetries ==
  []C3_NoTraceOfFailedLoad /\ [][C3_FailureStep]_vars

\* a load failed, the identifier was loaded again and is now cached
C3_Witness ==
  \E id \in ModelIds :
    /\ <<id, 1>> \in failedLoads
    /\ loadCount[id] = 2
    /\ models[id] # None

-----------------------------------------------------------------------------
(* Streaming *)

\* C4: at every moment the frames delivered to the client, and the frame
\* the generator has yielded but the transport has not sent yet, are the
\* fragments the background generation has produced so far, one frame per
\* fragment, in production order from the first on: nothing is reordered,
\* duplicated, skipped or merged.
C4_DeliveredIsPrefixOfProduced ==
  \A s \in StreamIds :
    LET st == streams[s] IN
    /\ Len(st.delivered) <= Len(st.produced)
    /\ \A i \in 1..Len(st.delivered) : st.delivered[i] = Frame(st.produced[i])
    /\ st.held # None =>
         /\ Len(st.delivered) < Len(st.produced)
         /\ st.held[1] = Frame(st.produced[Len(st.delivered) + 1])

\* two different fragments have been delivered while a third is still queued
C4_Witness ==
  \E s \in StreamIds :
    /\ Len(streams[s].delivered) = 2
    /\ streams[s].delivered[1] # streams[s].delivered[2]
    /\ Len(streams[s].produced) = 3

\* C5: if the background generation raises after the stream has started,
\* the foreground terminates the stream: the stream has ended, or the
\* foreground (or the transport reading it) can take its next step towards
\* the end; it is never left waiting on the channel for good.
C5_StreamEndsAfterBackgroundRaises ==
  \A s \in StreamIds :
    streams[s].bg = "raised" =>
      \/ streams[s].fg = "done"
      \/ ENABLED FgStep(s)

C6_Finite ==
  \A s \in StreamIds :
    Len(streams[s].produced) <= streams[s].gen_kwargs.max_new_tokens + 1

C6_NothingAfterTheEnd ==
  \A s \in StreamIds :
    streams[s].fg = "done" =>
      /\ streams'[s].fg = "done"
      /\ streams'[s].delivered = streams[s].delivered

\* C6: every started stream is finite.  At most max_new_tokens + 1 fragments
\* are produced; once the background generation has completed and closed
\* the channel (the stop signal is queued), the foreground, scheduled
\* fairly, drains the queue and the stream ends; nothing is delivered after
\* the end.
C6_StreamEndsAfterGenerationCompletes ==
  /\ \A s \in StreamIds :
       (streams[s].bg \in {"ending", "finished"}) ~> (streams[s].fg = "done")
  /\ []C6_Finite
  /\ [][C6_NothingAfterTheEnd]_vars

\* a stream has ended after its client read every fragment produced
C6_Witness ==
  \E s \in StreamIds :
    /\ streams[s].fg = "done" /\ streams[s].bg = "finished"
    /\ streams[s].client = "connected"
    /\ Len(streams[s].produced) = 3
    /\ Len(streams[s].delivered) = 3

\* C7: a stream is complete only once the background thread it started has
\* terminated, whether the generator ended on the stop signal or was closed
\* by the consumer; a stream starts at most one background thread, and a
\* generator closed before its first step started none.
C7_CompletionAfterJoin ==
  \A s \in StreamIds :
    LET st == streams[s] IN
    /\ st.nthreads <= 1
    /\ (st.nthreads = 0) <=> (st.bg = "unstarted")
    /\ st.fg = "done" => st.bg \in {"unstarted", "finished", "raised"}

\* the consumer closed a stream mid-way and it completed after the
\* background thread had run to its end
C7_Witness ==
  \E s \in StreamIds :
    /\ streams[s].fg = "done" /\ streams[s].client = "gone"
    /\ streams[s].bg = "finished" /\ streams[s].nthreads = 1
    /\ Len(streams[s].delivered) < Len(streams[s].produced)

-----------------------------------------------------------------------------
(* The request handlers *)

SamplingArgsOk(args, temperature) ==
  /\ args.do_sample <=> temperature > 0
  /\ args.do_sample => args.temperature = Some(temperature)
  /\ ~args.do_sample => args.temperature = None

\* C8: in /generate and in /generate/stream the engine's keyword arguments
\* enable sampling exactly when the request's temperature is above 0, and
\* carry the temperature only then; with temperature 0 (or below) the engine
\* gets do_sample false and no temperature.
C8_SamplingIffPositiveTemperature ==
  \A c \in Workers :
    /\ (pc[c] = "responded" /\ req[c].op = "generate" /\ engineArgs[c] # None)
         => SamplingArgsOk(engineArgs[c][1], req[c].fields.temperature)
    /\ (pc[c] = "responded" /\ req[c].op = "stream" /\ resp[c].status = 200)
         => SamplingArgsOk(resp[c].body.gen_kwargs, req[c].fields.temperature)

\* /generate was served with temperature 0
C8_Witness ==
  \E c \in Workers :
    /\ pc[c] = "responded" /\ req[c].op = "generate"
    /\ resp[c].status = 200
    /\ req[c].fields.temperature = 0
    /\ engineArgs[c] = Some([max_new_tokens |-> req[c].fields.max_new_tokens,
                             do_sample |-> FALSE, temperature |-> None,
                             top_p |-> DefaultTopP,
                             repetition_penalty |-> DefaultRepetitionPenalty])

\* C9: whatever raises inside a handler (a loader in get_model, the
\* tokenizer, model.generate, decode, the config extraction) is caught by
\* the handler: the answer is status 500 with only the exception's message
\* as its error (no text), a raised get_model is always caught next, and an
\* answer of status 200 comes from a handler in which nothing raised.
C9_FailuresAnswered500 ==
  \A c \in Workers :
    /\ pc[c] = "raised" => ENABLED CatchLoadError(c)
    /\ pc[c] = "responded" =>
         /\ exc[c] # None =>
              resp[c] = [status |-> 500, body |-> [error |-> exc[c][1]]]
         /\ exc[c] = None => resp[c].status = 200

\* model.generate raised inside /generate
C9_Witness ==
  \E c \in Workers :
    /\ pc[c] = "responded" /\ req[c].op = "generate"
    /\ exc[c] = Some("generate failed")
    /\ resp[c].status = 500

\* C10: a /tokenize answer has count = len(token_ids) = len(tokens), and
\* tokens[i] is the decoding of token_ids[i] alone, at every position.
C10_TokenizeCounts ==
  \A c \in Workers :
    (pc[c] = "responded" /\ req[c].op = "tokenize" /\ resp[c].status = 200)
      => LET b == resp[c].body IN
         /\ b.count = Len(b.token_ids)
         /\ b.count = Len(b.tokens)
         /\ \A i \in 1..b.count : b.tokens[i] = Decode(<<b.token_ids[i]>>, FALSE)

\* a prompt whose first character takes two tokens was tokenized
C10_Witness ==
  \E c \in Workers :
    /\ pc[c] = "responded" /\ req[c].op = "tokenize"
    /\ resp[c].status = 200
    /\ req[c].fields.prompt = <<"E", "\n">>
    /\ resp[c].body.count = 3
    /\ resp[c].body.tokens[1] = <<"?">>


RecognizedAttrs == {ConfigAttrs[i] : i \in 1..Len(ConfigAttrs)}

\* C11: a /config answer has only recognized attribute names as keys, and
\* no key whose value is null: an attribute the model does not supply with
\* a value is left out, also when the key comes from the to_dict() dump.
C11_ConfigOmitsMissingAttributes ==
  \A c \in Workers :
    (pc[c] = "responded" /\ req[c].op = "config" /\ resp[c].status = 200)
      => /\ DOMAIN resp[c].body \subseteq RecognizedAttrs
         /\ \A k \in DOMAIN resp[c].body : resp[c].body[k] # None


\* the response body: the frames sent so far, one after the other
RECURSIVE Body(_)
Body(frames) ==
  IF frames = <<>> THEN <<>> ELSE Head(frames) \o Body(Tail(frames))

DataField == <<"d", "a", "t", "a", ":">>

\* the value of a "data:" line: what follows the colon, less one space
FieldValue(line) ==
  LET rest == SubSeq(line, Len(DataField) + 1, Len(line))
  IN IF rest # <<>> /\ rest[1] = " " THEN Tail(rest) ELSE rest

\* a reader of the event stream at the end of a line: a blank line ends
\* the event (one without data is no event), a "data:" line adds its value
\* to the event's data, any other line is ignored
EndOfLine(rd) ==
  IF rd.line = <<>>
  THEN [line |-> <<>>, data |-> None,
        events |-> IF rd.data = None THEN rd.events
                   ELSE Append(rd.events, rd.data[1])]
  ELSE IF Len(rd.line) >= Len(DataField)
          /\ SubSeq(rd.line, 1, Len(DataField)) = DataField
       THEN [rd EXCEPT !.line = <<>>,
                       !.data = IF rd.data = None
                                THEN Some(FieldValue(rd.line))
                                ELSE Some(rd.data[1] \o <<"\n">>
                                          \o FieldValue(rd.line))]
       ELSE [rd EXCEPT !.line = <<>>]

RECURSIVE ReadEvents(_, _)
ReadEvents(body, rd) ==
  IF body = <<>> THEN rd.events
  ELSE ReadEvents(Tail(body),
                  IF Head(body) = "\n" THEN EndOfLine(rd)
                  ELSE [rd EXCEPT !.line = Append(@, Head(body))])

\* the events a client finds in the body, split at the blank lines
Events(body) ==
  ReadEvents(body, [line |-> <<>>, data |-> None, events |-> <<>>])

\* C12: the body sent so far splits at its blank lines into one event for
\* each fragment delivered, and event i carries fragment i, also when a
\* fragment is empty or has a newline in it.
C12_OneEventPerFragment ==
  \A s \in StreamIds :
    Events(Body(streams[s].delivered))
      = SubSeq(streams[s].produced, 1, Len(streams[s].delivered))


\* the generation thread of stream s is alive
BgAlive(s) == streams[s].bg \in {"running", "ending"}

\* the disconnect itself touches nothing of the generation thread
C13_CloseLeavesThread ==
  \A s \in StreamIds :
    (streams[s].client = "connected" /\ streams'[s].client = "gone")
      => /\ streams'[s].bg = streams[s].bg
         /\ streams'[s].ngen = streams[s].ngen
         /\ streams'[s].queue = streams[s].queue
         /\ streams'[s].produced = streams[s].produced

\* C13: when the client disconnects mid-stream the generation thread is
\* not interrupted: the disconnect leaves it as it was, it always has a
\* step to take (it never waits on the queue for a reader), and it comes
\* to its end, after which thread.join() returns and the generator is
\* done; a thread that ended by itself has generated all its tokens.
C13_BackgroundOutlivesDisconnect ==
  /\ [][C13_CloseLeavesThread]_vars
  /\ [](\A s \in StreamIds :
          /\ (streams[s].client = "gone" /\ BgAlive(s)) => ENABLED BgStep(s)
          /\ streams[s].bg = "finished"
               => streams[s].ngen
                    = Len(Continuation(streams[s].input_ids,
                                       streams[s].gen_kwargs,
                                       streams[s].seed)))
  /\ \A s \in StreamIds :
       (streams[s].client = "gone" /\ BgAlive(s))
         ~> (~BgAlive(s) /\ streams[s].fg = "done")

\* the client left, the thread went on to the end and left on the queue
\* what nobody read, and the join returned
C13_Witness ==
  \E s \in StreamIds :
    /\ streams[s].client = "gone" /\ streams[s].bg = "finished"
    /\ streams[s].fg = "done"
    /\ Len(streams[s].queue) >= 2
    /\ Len(streams[s].produced) > Len(streams[s].delivered) + 1


\* two answered calls of the same request
Repeated(c, d) ==
  /\ c # d
  /\ pc[c] = "responded" /\ pc[d] = "responded"
  /\ resp[c].status = 200 /\ resp[d].status = 200
  /\ req[c].op = req[d].op /\ req[c].model_id = req[d].model_id
  /\ req[c].fields = req[d].fields

\* C14: the same request made twice gets the same answer, whether the call
\* loaded the model or found it cached: /tokenize gives the same token_ids,
\* and /generate with temperature 0 gives the same text, which decodes the
\* prompt's ids followed by the continuation the model generated.
C14_RepeatedRequestSameResult ==
  \A c, d \in Callers :
    Repeated(c, d) =>
      /\ req[c].op = "tokenize"
           => resp[c].body.token_ids = resp[d].body.token_ids
      /\ (req[c].op = "generate" /\ req[c].fields.temperature = 0)
           => /\ resp[c].body.text = resp[d].body.text
              /\ LET ids == Encode(req[c].fields.prompt)
                 IN \A seed \in Seeds :
                      resp[c].body.text
                        = Decode(ids \o Continuation(ids, engineArgs[c][1], seed),
                                 TRUE)

\* a /generate at temperature 0 that loaded the model and its repetition
\* that found it cached, both answered with a text longer than the prompt
C14_Witness ==
  \E c, d \in Callers :
    /\ Repeated(c, d)
    /\ req[c].op = "generate" /\ req[c].fields.temperature = 0
    /\ req[c].miss /\ ~req[d].miss
    /\ Len(resp[d].body.text) > Len(req[d].fields.prompt)


\* a step keeps every entry the cache has: none removed, none replaced
CacheEntriesStable ==
  \A id \in ModelIds : models[id] # None => models'[id] = models[id]

\* C15: under any interleaving of get_model calls the cache has one entry
\* per identifier at most, and an identifier once mapped to a handle stays
\* mapped to that same handle: the entry is never removed and never
\* replaced by another handle.
C15_CacheEntriesNeverReplaced == [][CacheEntriesStable]_vars


\* the streamer of a stream before any token
FreshStreamer(st) ==
  [st EXCEPT !.token_cache = <<>>, !.print_len = 0, !.queue = <<>>,
             !.produced = <<>>]

RECURSIVE PutAll(_, _)
PutAll(st, tokens) ==
  IF tokens = <<>> THEN st
  ELSE PutAll(StreamerPut(st, Head(tokens)), Tail(tokens))

\* the fragments the generation of a stream's own request produces
OwnFragments(st) ==
  StreamerEnd(PutAll(FreshStreamer(st),
                     Continuation(st.input_ids, st.gen_kwargs, st.seed))).produced

\* a step changes one stream only
C16_OneStreamPerStep ==
  \A s, t \in DOMAIN streams :
    (s # t /\ streams'[s] # streams[s]) => streams'[t] = streams[t]

\* C16: streams running at once on the same cached model do not mix: each
\* has its own queue and its own single generation thread, a step of one
\* leaves the other as it is, and the frames delivered on a stream are, in
\* order, the first fragments of that stream's own generation.
C16_StreamsIsolated ==
  /\ [][C16_OneStreamPerStep]_vars
  /\ [](\A s \in DOMAIN streams :
          LET st == streams[s] IN
          /\ st.nthreads <= 1
          /\ Len(st.delivered) <= Len(OwnFragments(st))
          /\ \A i \in 1..Len(st.delivered) :
               st.delivered[i] = Frame(OwnFragments(st)[i]))

\* both generations are running on the same model, each stream has
\* delivered frames, and the two streams carry different text
C16_Witness ==
  /\ DOMAIN streams = StreamPair
  /\ \A s \in StreamPair :
       /\ streams[s].bg = "running"
       /\ streams[s].delivered # <<>>
       /\ streams[s].model_id = "gpt2"
  /\ streams[1].delivered # streams[2].delivered


\* the request caller c is serving in this step (a first step sets it)
RequestOf(c) == IF req[c] = None THEN req'[c] ELSE req[c]

\* the step of caller c, serving a request for identifier X, leaves the
\* entries of the other identifiers, at most adds the entry of X, and
\* changes nothing when its lookup found X cached
FrameOfStep(c) ==
  LET X == RequestOf(c).model_id IN
  /\ \A id \in ModelIds \ {X} : models'[id] = models[id]
  /\ models'[X] # models[X] => models[X] = None
  /\ ~RequestOf(c).miss => models' = models

\* C17: a request for identifier X changes nothing of the shared cache but
\* possibly adds the entry of X: every step of every caller leaves the
\* entries of the other identifiers, writes the entry of X only where there
\* was none, and leaves the whole cache when X was cached at its lookup.
C17_RequestChangesOnlyItsEntry ==
  [][\A c \in Callers : pc'[c] # pc[c] => FrameOfStep(c)]_vars


\* the fragments of a stream taken off the queue so far
Taken(st) ==
  Len(st.produced)
    - Cardinality({i \in 1..Len(st.queue) : st.queue[i] # StopSignal})

\* a fragment is taken only when every fragment taken before is sent
C18_TakeAfterSend ==
  \A s \in DOMAIN streams :
    Taken(streams'[s]) > Taken(streams[s])
      => Taken(streams[s]) = Len(streams[s].delivered)

\* C18: the transport holds one fragment at most: the fragments taken from
\* the streamer and not yet sent are never more than one, the one is the
\* frame in hand, and the next fragment is taken only after the frame
\* before it has been sent.
C18_AtMostOneFragmentHeld ==
  /\ [][C18_TakeAfterSend]_vars
  /\ [](\A s \in DOMAIN streams :
          LET st == streams[s] IN
          /\ Taken(st) - Len(st.delivered) \in {0, 1}
          /\ st.held # None => Taken(st) = Len(st.delivered) + 1
          /\ st.fg \in {"waiting", "sent"} => Taken(st) = Len(st.delivered))

\* a frame is in hand after an earlier one was sent, while the generation
\* has already put further fragments on the queue
C18_Witness ==
  \E s \in DOMAIN streams :
    /\ streams[s].held # None
    /\ streams[s].delivered # <<>>
    /\ Len(streams[s].produced) > Taken(streams[s])

=============================================================================
